---- MODULE Spec2Model ----
(***************************************************************************)
(* Model of cheatsheet_Recursive_Patterns_FP_ES6.js: a collection of pure  *)
(* recursive array utilities.                                               *)
(*                                                                          *)
(* JavaScript values are tagged records [kind, v]; an array handed to a     *)
(* function is a TLA+ sequence of such values, and an array that is itself  *)
(* an element of an array is the value Arr(s).  Destructuring `[x, ...xs]`  *)
(* of an empty array binds x to undefined, which is what def(x) tests.      *)
(* A function value is a descriptor that Call applies to the arguments the  *)
(* caller actually passes; a parameter with no argument reads as undefined. *)
(* Several names are defined more than once in the source; each definition  *)
(* is modelled under its own name.                                          *)
(***************************************************************************)
EXTENDS Integers, Sequences, FiniteSets, TLC

VARIABLES fn, impl, args, out

vars == <<fn, impl, args, out>>

(***************************************************************************)
(* Bounds of the input space.                                               *)
(***************************************************************************)
MaxLen == 4
MaxVal == 2
MaxNodes == 5
MaxFns == 3

(***************************************************************************)
(* JavaScript values.                                                       *)
(***************************************************************************)
Num(n) == [kind |-> "number", v |-> n]
Bool(b) == [kind |-> "boolean", v |-> IF b THEN 1 ELSE 0]
Arr(s) == [kind |-> "array", v |-> s]
Fn(name, env) == [kind |-> "function", v |-> [name |-> name, env |-> env]]
UNDEF == [kind |-> "undefined", v |-> 0]
NaN == [kind |-> "NaN", v |-> 0]
Infinity == [kind |-> "infinity", v |-> 1]
NegInfinity == [kind |-> "infinity", v |-> -1]

\* truthiness of a value used as a condition
Truthy(x) ==
  CASE x.kind = "number" -> x.v # 0
    [] x.kind = "boolean" -> x.v = 1
    [] x.kind = "undefined" -> FALSE
    [] x.kind = "NaN" -> FALSE
    [] OTHER -> TRUE

\* a + b and a - b on numbers; undefined or NaN operands give NaN
Add(a, b) ==
  IF a.kind = "number" /\ b.kind = "number" THEN Num(a.v + b.v) ELSE NaN

Sub(a, b) ==
  IF a.kind = "number" /\ b.kind = "number" THEN Num(a.v - b.v) ELSE NaN

IsNumeric(x) == x.kind \in {"number", "infinity"}

\* a < b; false whenever an operand is undefined or NaN
Lt(a, b) ==
  IF ~(IsNumeric(a) /\ IsNumeric(b)) THEN FALSE
  ELSE IF a.kind = "number" /\ b.kind = "number" THEN a.v < b.v
  ELSE IF a.kind = "number" THEN b.v > 0
  ELSE IF b.kind = "number" THEN a.v < 0
  ELSE a.v < b.v

Gt(a, b) == Lt(b, a)

\* a <= b on numbers
Le(a, b) ==
  IF ~(IsNumeric(a) /\ IsNumeric(b)) THEN FALSE
  ELSE IF a.kind = "number" /\ b.kind = "number" THEN a.v <= b.v
  ELSE IF a.kind = "number" THEN b.v > 0
  ELSE IF b.kind = "number" THEN a.v < 0
  ELSE a.v <= b.v

\* a === b on primitives
StrictEq(a, b) ==
  /\ a.kind = b.kind
  /\ a.kind # "NaN"
  /\ a.kind \in {"number", "boolean", "infinity"} => a.v = b.v

\* a[j]: undefined outside the array
Index(a, j) ==
  IF j.kind = "number" /\ j.v >= 0 /\ j.v < Len(a) THEN a[j.v + 1] ELSE UNDEF

\* the k-th argument of a call, undefined when the caller passed fewer
Arg(as, k) == IF k <= Len(as) THEN as[k] ELSE UNDEF

\* a parameter default `p = d`
Default(p, d) == IF p.kind = "undefined" THEN d ELSE p

(***************************************************************************)
(* Primitives.                                                              *)
(***************************************************************************)
head(xs) == IF Len(xs) = 0 THEN UNDEF ELSE xs[1]

tail(xs) == IF Len(xs) = 0 THEN <<>> ELSE Tail(xs)

def(x) == x.kind # "undefined"

undef(x) == ~def(x)

isArray(x) == x.kind = "array"

(***************************************************************************)
(* Function values.  Call(f, as) is the call f(...as).                      *)
(***************************************************************************)
RECURSIVE Call(_, _)
RECURSIVE reduce404(_, _, _, _)
RECURSIVE flattenReduce(_)

\* const double = x => x * 2
double(x) == IF x.kind = "number" THEN Num(x.v * 2) ELSE NaN

\* const add5to = partial(add, 5)
add5to(x) == Add(Num(5), x)

\* const even = x => x % 2 === 0
even(x) == Bool(x.kind = "number" /\ x.v % 2 = 0)

\* the callback of swap
swapFn(a, i, j, x, y) ==
  IF StrictEq(y, i) THEN Index(a, j)
  ELSE IF StrictEq(y, j) THEN Index(a, i)
  ELSE x

\* faulty variant of reverseStep: the element is added at the end
reverseStepAppends(memo, x) == Append(memo, x)

\* the callbacks of the reduce-based definitions
reverseStep(memo, x) == <<x>> \o memo

lengthStep(memo, x) == Add(memo, Num(1))

mapStep(f, memo, x) == Append(memo, Call(f, <<x>>))

\* faulty variant of filterStep: the test is inverted
filterStepInverted(f, memo, x) ==
  IF Truthy(Call(f, <<x>>)) THEN memo ELSE Append(memo, x)

filterStep(f, memo, x) ==
  IF Truthy(Call(f, <<x>>)) THEN Append(memo, x) ELSE memo

rejectStep(f, memo, x) ==
  IF Truthy(Call(f, <<x>>)) THEN memo ELSE Append(memo, x)

firstStep(n, memo, x, i) == IF Lt(i, n) THEN Append(memo, x) ELSE memo

flattenStep(memo, x) ==
  IF Truthy(x)
  THEN IF isArray(x) THEN memo \o flattenReduce(x.v) ELSE Append(memo, x)
  ELSE <<>>

\* the callback of flow
flowStep(memo, f) == Call(f, <<memo>>)

Call(f, as) ==
  LET nm == f.v.name
      env == f.v.env
  IN CASE nm = "double" -> double(Arg(as, 1))
       [] nm = "add5to" -> add5to(Arg(as, 1))
       [] nm = "even" -> even(Arg(as, 1))
       [] nm = "digit" -> Num(Arg(as, 1).v * 10 + env[1])
       [] nm = "record" -> Append(Arg(as, 1), <<Arg(as, 2), Arg(as, 3)>>)
       [] nm = "swapFn" -> swapFn(env[1], env[2], env[3], Arg(as, 1), Arg(as, 2))
       [] nm = "leHead" -> Bool(Le(Arg(as, 1), env[1]))
       [] nm = "gtHead" -> Bool(Gt(Arg(as, 1), env[1]))
       [] nm = "ltHead" -> Bool(Lt(Arg(as, 1), env[1]))
       [] nm = "reverseStep" -> reverseStep(Arg(as, 1), Arg(as, 2))
       [] nm = "lengthStep" -> lengthStep(Arg(as, 1), Arg(as, 2))
       [] nm = "mapStep" -> mapStep(env[1], Arg(as, 1), Arg(as, 2))
       [] nm = "filterStep" -> filterStep(env[1], Arg(as, 1), Arg(as, 2))
       [] nm = "rejectStep" -> rejectStep(env[1], Arg(as, 1), Arg(as, 2))
       [] nm = "firstStep" -> firstStep(env[1], Arg(as, 1), Arg(as, 2), Arg(as, 3))
       [] nm = "flattenStep" -> flattenStep(Arg(as, 1), Arg(as, 2))
       [] nm = "flowStep" -> flowStep(Arg(as, 1), Arg(as, 2))

(***************************************************************************)
(* reduce, in its three definitions.                                        *)
(***************************************************************************)
RECURSIVE reduce231(_, _, _, _)
reduce231(xs, f, memo, i) ==
  IF undef(head(xs)) THEN memo
  ELSE reduce231(tail(xs), f, Call(f, <<memo, head(xs), i>>), Add(i, Num(1)))

RECURSIVE reduce237(_, _, _, _)
reduce237(xs, f, memo, i) ==
  LET i0 == Default(i, Num(0))
  IN IF def(head(xs))
     THEN reduce237(tail(xs), f, Call(f, <<memo, head(xs), i0>>), Add(i0, Num(1)))
     ELSE memo

reduce404(xs, f, memo, i) ==
  LET i0 == Default(i, Num(0))
  IN IF def(head(xs))
     THEN reduce404(tail(xs), f, Call(f, <<memo, head(xs), i0>>), Add(i0, Num(1)))
     ELSE memo

(***************************************************************************)
(* length, reverse, first.                                                  *)
(***************************************************************************)
RECURSIVE lengthAcc(_, _)
lengthAcc(xs, len) ==
  LET len0 == Default(len, Num(0))
  IN IF def(head(xs)) THEN lengthAcc(tail(xs), Add(len0, Num(1))) ELSE len0

RECURSIVE length(_)
length(xs) == IF def(head(xs)) THEN Add(Num(1), length(tail(xs))) ELSE Num(0)

lengthReduce(xs) == reduce404(xs, Fn("lengthStep", <<>>), Num(0), UNDEF)

RECURSIVE reverse(_)
reverse(xs) == IF def(head(xs)) THEN Append(reverse(tail(xs)), head(xs)) ELSE <<>>

reverseReduce(xs) == reduce404(xs, Fn("reverseStep", <<>>), <<>>, UNDEF)

RECURSIVE first(_, _)
first(xs, n) ==
  LET n0 == Default(n, Num(1))
  IN IF def(head(xs)) /\ Truthy(n0)
     THEN <<head(xs)>> \o first(tail(xs), Sub(n0, Num(1)))
     ELSE <<>>

firstReduce(xs, n) == reduce404(xs, Fn("firstStep", <<n>>), <<>>, UNDEF)

(***************************************************************************)
(* slice, flatten.                                                          *)
(***************************************************************************)
RECURSIVE slice(_, _, _, _)
slice(xs, i, y, curr) ==
  LET c0 == Default(curr, Num(0))
  IN IF def(head(xs))
     THEN IF StrictEq(c0, i)
          THEN <<y, head(xs)>> \o slice(tail(xs), i, y, Add(c0, Num(1)))
          ELSE <<head(xs)>> \o slice(tail(xs), i, y, Add(c0, Num(1)))
     ELSE <<>>

RECURSIVE flatten(_)
flatten(xs) ==
  IF def(head(xs))
  THEN IF isArray(head(xs))
       THEN flatten(head(xs).v) \o flatten(tail(xs))
       ELSE <<head(xs)>> \o flatten(tail(xs))
  ELSE <<>>

flattenReduce(xs) == reduce404(xs, Fn("flattenStep", <<>>), <<>>, UNDEF)

(***************************************************************************)
(* map, filter, reject, partition.                                          *)
(***************************************************************************)
RECURSIVE map169(_, _)
map169(xs, f) ==
  IF undef(head(xs)) THEN <<>>
  ELSE <<Call(f, <<head(xs)>>)>> \o map169(tail(xs), f)

RECURSIVE map(_, _)
map(xs, f) ==
  IF def(head(xs)) THEN <<Call(f, <<head(xs)>>)>> \o map(tail(xs), f) ELSE <<>>

mapReduce(xs, f) == reduce404(xs, Fn("mapStep", <<f>>), <<>>, UNDEF)

RECURSIVE filter182(_, _)
filter182(xs, f) ==
  IF undef(head(xs)) THEN <<>>
  ELSE IF Truthy(Call(f, <<head(xs)>>))
       THEN <<head(xs)>> \o filter182(tail(xs), f)
       ELSE filter182(tail(xs), f)

RECURSIVE filter(_, _)
filter(xs, f) ==
  IF def(head(xs))
  THEN IF Truthy(Call(f, <<head(xs)>>))
       THEN <<head(xs)>> \o filter(tail(xs), f)
       ELSE filter(tail(xs), f)
  ELSE <<>>

filterReduce(xs, f) == reduce404(xs, Fn("filterStep", <<f>>), <<>>, UNDEF)

RECURSIVE reject(_, _)
reject(xs, f) ==
  IF undef(head(xs)) THEN <<>>
  ELSE IF ~Truthy(Call(f, <<head(xs)>>))
       THEN <<head(xs)>> \o reject(tail(xs), f)
       ELSE reject(tail(xs), f)

rejectReduce(xs, f) == reduce404(xs, Fn("rejectStep", <<f>>), <<>>, UNDEF)

partition(xs, f) == <<filter(xs, f), reject(xs, f)>>

(***************************************************************************)
(* swap, flow, compose, min, max.                                           *)
(***************************************************************************)
\* map as swap finds it: one of the three definitions of map
mapBy(d, xs, f) ==
  CASE d = "map169" -> map169(xs, f)
    [] d = "map174" -> map(xs, f)
    [] d = "map411" -> mapReduce(xs, f)

swap(d, a, i, j) == mapBy(d, a, Fn("swapFn", <<a, i, j>>))

flow(fns, init) == reduce237(fns, Fn("flowStep", <<>>), init, UNDEF)

\* reverse as compose finds it
reverseBy(d, xs) ==
  CASE d = "reverse89" -> reverse(xs)
    [] d = "reverse407" -> reverseReduce(xs)

\* faulty variant of compose: the functions are not reversed
composeUnreversed(d, fns, init) == flow(fns, init)

compose(d, fns, init) == flow(reverseBy(d, fns), init)

RECURSIVE min(_, _)
min(xs, result) ==
  LET r0 == Default(result, Infinity)
  IN IF def(head(xs))
     THEN IF Lt(head(xs), r0) THEN min(tail(xs), head(xs)) ELSE r0
     ELSE r0

RECURSIVE max(_, _)
max(xs, result) ==
  LET r0 == Default(result, NegInfinity)
  IN IF def(head(xs))
     THEN IF Gt(head(xs), r0) THEN max(tail(xs), head(xs)) ELSE max(tail(xs), r0)
     ELSE r0

(***************************************************************************)
(* quicksort, in its two definitions.                                       *)
(***************************************************************************)
\* flatten as quicksort finds it
flattenBy(d, xs) ==
  CASE d = "flatten143" -> flatten(xs)
    [] d = "flatten431" -> flattenReduce(xs)

RECURSIVE quicksort380(_, _)
quicksort380(d, xs) ==
  IF Truthy(length(xs))
  THEN flattenBy(d,
         << Arr(quicksort380(d, filter(tail(xs), Fn("leHead", <<head(xs)>>)))),
            head(xs),
            Arr(quicksort380(d, filter(tail(xs), Fn("gtHead", <<head(xs)>>)))) >>)
  ELSE <<>>

RECURSIVE quicksort390(_, _)
quicksort390(d, array) ==
  IF ~Truthy(length(array)) THEN <<>>
  ELSE LET parts == partition(tail(array), Fn("ltHead", <<head(array)>>))
           less == parts[1]
           more == parts[2]
       IN flattenBy(d,
            << Arr(quicksort390(d, less)), head(array), Arr(quicksort390(d, more)) >>)

(***************************************************************************)
(* Inputs.                                                                  *)
(***************************************************************************)
SeqsUpTo(S, n) == UNION {[1..k -> S] : k \in 0..n}

Vals == {Num(k) : k \in 0..MaxVal}

Arrays == SeqsUpTo(Vals, MaxLen)

Positions == {Num(k) : k \in 0..(MaxLen + 1)}

\* the count given to first: a number, or undefined when it is omitted
Counts == {Num(k) : k \in (0 - 2)..(MaxLen + 1)} \cup {UNDEF}

NestLeaves == {Num(0), Num(1)}

\* nested arrays by weight: a leaf weighs 1, a nested array 1 plus its elements
ArraysOfWeight[n \in 0..MaxNodes] ==
  IF n = 0 THEN {<<>>}
  ELSE UNION {
         { <<it>> \o rest :
             it \in (IF k = 1 THEN NestLeaves \cup {Arr(<<>>)}
                     ELSE {Arr(s) : s \in ArraysOfWeight[k - 1]}),
             rest \in ArraysOfWeight[n - k] } : k \in 1..n }

NestedArrays == UNION {ArraysOfWeight[n] : n \in 0..MaxNodes}

MapFns == {Fn("double", <<>>), Fn("add5to", <<>>), Fn("digit", <<1>>)}

Predicates == {Fn("even", <<>>), Fn("double", <<>>)}

UnaryFns == {Fn("double", <<>>), Fn("add5to", <<>>), Fn("digit", <<1>>), Fn("digit", <<2>>)}

FnLists == SeqsUpTo(UnaryFns, MaxFns)

\* the folding function of a reduce call records each application (element, index)
\* after what the accumulator already holds
InitialLogs == {<<>>, << <<Num(0), Num(0)>> >>}

(***************************************************************************)
(* The state: the call made (function, definitions in effect, arguments)   *)
(* and the value it returned.  The functions are pure and share no state,  *)
(* so a behaviour is one call on arguments drawn from the input sets.       *)
(***************************************************************************)
Init ==
  /\ fn = "none"
  /\ impl = <<>>
  /\ args = <<>>
  /\ out = UNDEF

\* the call f(...as), with the definitions d in effect, returns r
Returns(f, d, as, r) ==
  /\ fn' = f
  /\ impl' = d
  /\ args' = as
  /\ out' = r

CallQuicksort380 ==
  /\ fn = "none"
  /\ \E d \in {"flatten143", "flatten431"}, xs \in Arrays :
       Returns("quicksort", <<"quicksort380", d>>, <<xs>>, quicksort380(d, xs))

CallQuicksort390 ==
  /\ fn = "none"
  /\ \E d \in {"flatten143", "flatten431"}, xs \in Arrays :
       Returns("quicksort", <<"quicksort390", d>>, <<xs>>, quicksort390(d, xs))

CallMin ==
  /\ fn = "none"
  /\ \E xs \in Arrays :
       Returns("min", <<"min344">>, <<xs>>, min(xs, UNDEF))

CallMax ==
  /\ fn = "none"
  /\ \E xs \in Arrays :
       Returns("max", <<"max353">>, <<xs>>, max(xs, UNDEF))

CallFlatten ==
  /\ fn = "none"
  /\ \E xs \in NestedArrays :
       Returns("flatten", <<"flatten143">>, <<xs>>, flatten(xs))

CallFlattenReduce ==
  /\ fn = "none"
  /\ \E xs \in NestedArrays :
       Returns("flatten", <<"flatten431">>, <<xs>>, flattenReduce(xs))

CallSwap ==
  /\ fn = "none"
  /\ \E d \in {"map169", "map174", "map411"}, a \in Arrays, i \in Positions, j \in Positions :
       Returns("swap", <<"swap156", d>>, <<a, i, j>>, swap(d, a, i, j))

CallSlice ==
  /\ fn = "none"
  /\ \E xs \in Arrays, i \in Positions, y \in Vals :
       Returns("slice", <<"slice123">>, <<xs, i, y>>, slice(xs, i, y, UNDEF))

CallFirst ==
  /\ fn = "none"
  /\ \E xs \in Arrays, n \in Counts :
       Returns("first", <<"first107">>, <<xs, n>>, first(xs, n))

CallFirstReduce ==
  /\ fn = "none"
  /\ \E xs \in Arrays, n \in Counts :
       Returns("first", <<"first419">>, <<xs, n>>, firstReduce(xs, n))

CallReduce231 ==
  /\ fn = "none"
  /\ \E xs \in Arrays, memo \in InitialLogs :
       Returns("reduce", <<"reduce231">>, <<xs, memo>>,
               reduce231(xs, Fn("record", <<>>), memo, UNDEF))

CallReduce237 ==
  /\ fn = "none"
  /\ \E xs \in Arrays, memo \in InitialLogs :
       Returns("reduce", <<"reduce237">>, <<xs, memo>>,
               reduce237(xs, Fn("record", <<>>), memo, UNDEF))

CallReduce404 ==
  /\ fn = "none"
  /\ \E xs \in Arrays, memo \in InitialLogs :
       Returns("reduce", <<"reduce404">>, <<xs, memo>>,
               reduce404(xs, Fn("record", <<>>), memo, UNDEF))

CallLengthAcc ==
  /\ fn = "none"
  /\ \E xs \in Arrays :
       Returns("length", <<"length76">>, <<xs>>, lengthAcc(xs, UNDEF))

CallLength ==
  /\ fn = "none"
  /\ \E xs \in Arrays :
       Returns("length", <<"length78">>, <<xs>>, length(xs))

CallLengthReduce ==
  /\ fn = "none"
  /\ \E xs \in Arrays :
       Returns("length", <<"length409">>, <<xs>>, lengthReduce(xs))

CallReverse ==
  /\ fn = "none"
  /\ \E xs \in Arrays :
       Returns("reverse", <<"reverse89">>, <<xs>>, reverse(xs))

CallReverseReduce ==
  /\ fn = "none"
  /\ \E xs \in Arrays :
       Returns("reverse", <<"reverse407">>, <<xs>>, reverseReduce(xs))

CallMap169 ==
  /\ fn = "none"
  /\ \E xs \in Arrays, f \in MapFns :
       Returns("map", <<"map169">>, <<xs, f>>, map169(xs, f))

CallMap ==
  /\ fn = "none"
  /\ \E xs \in Arrays, f \in MapFns :
       Returns("map", <<"map174">>, <<xs, f>>, map(xs, f))

CallMapReduce ==
  /\ fn = "none"
  /\ \E xs \in Arrays, f \in MapFns :
       Returns("map", <<"map411">>, <<xs, f>>, mapReduce(xs, f))

CallFilter182 ==
  /\ fn = "none"
  /\ \E xs \in Arrays, f \in Predicates :
       Returns("filter", <<"filter182">>, <<xs, f>>, filter182(xs, f))

CallFilter ==
  /\ fn = "none"
  /\ \E xs \in Arrays, f \in Predicates :
       Returns("filter", <<"filter191">>, <<xs, f>>, filter(xs, f))

CallFilterReduce ==
  /\ fn = "none"
  /\ \E xs \in Arrays, f \in Predicates :
       Returns("filter", <<"filter413">>, <<xs, f>>, filterReduce(xs, f))

CallReject ==
  /\ fn = "none"
  /\ \E xs \in Arrays, f \in Predicates :
       Returns("reject", <<"reject203">>, <<xs, f>>, reject(xs, f))

CallRejectReduce ==
  /\ fn = "none"
  /\ \E xs \in Arrays, f \in Predicates :
       Returns("reject", <<"reject416">>, <<xs, f>>, rejectReduce(xs, f))

CallFlow ==
  /\ fn = "none"
  /\ \E fns \in FnLists, x \in Vals :
       Returns("flow", <<"flow309">>, <<fns, x>>, flow(fns, x))

CallCompose ==
  /\ fn = "none"
  /\ \E d \in {"reverse89", "reverse407"}, fns \in FnLists, x \in Vals :
       Returns("compose", <<"compose331", d>>, <<fns, x>>, compose(d, fns, x))

Next ==
  \/ CallQuicksort380
  \/ CallQuicksort390
  \/ CallMin
  \/ CallMax
  \/ CallFlatten
  \/ CallFlattenReduce
  \/ CallSwap
  \/ CallSlice
  \/ CallFirst
  \/ CallFirstReduce
  \/ CallReduce231
  \/ CallReduce237
  \/ CallReduce404
  \/ CallLengthAcc
  \/ CallLength
  \/ CallLengthReduce
  \/ CallReverse
  \/ CallReverseReduce
  \/ CallMap169
  \/ CallMap
  \/ CallMapReduce
  \/ CallFilter182
  \/ CallFilter
  \/ CallFilterReduce
  \/ CallReject
  \/ CallRejectReduce
  \/ CallFlow
  \/ CallCompose

Spec == Init /\ [][Next]_vars

(***************************************************************************)
(* Reference notions the claims are stated with.                            *)
(***************************************************************************)
IsCall(f) == fn = f

NonDecreasing(s) == \A k \in 1..(Len(s) - 1) : Le(s[k], s[k + 1])

Count(s, x) == Cardinality({k \in 1..Len(s) : s[k] = x})

Permutation(s, r) ==
  /\ Len(s) = Len(r)
  /\ \A k \in 1..Len(r) : Count(s, r[k]) = Count(r, r[k])

Smallest(s) ==
  IF Len(s) = 0 THEN Infinity
  ELSE CHOOSE x \in {s[k] : k \in 1..Len(s)} : \A k \in 1..Len(s) : x.v <= s[k].v

Largest(s) ==
  IF Len(s) = 0 THEN NegInfinity
  ELSE CHOOSE x \in {s[k] : k \in 1..Len(s)} : \A k \in 1..Len(s) : x.v >= s[k].v

RECURSIVE Leaves(_)
Leaves(s) ==
  IF Len(s) = 0 THEN <<>>
  ELSE (IF s[1].kind = "array" THEN Leaves(s[1].v) ELSE <<s[1]>>) \o Leaves(Tail(s))

Inserted(s, i, y) ==
  IF i < Len(s) THEN SubSeq(s, 1, i) \o <<y>> \o SubSeq(s, i + 1, Len(s))
  ELSE Append(s, y)

Leading(s, n) == SubSeq(s, 1, IF n <= 0 THEN 0 ELSE IF n < Len(s) THEN n ELSE Len(s))

Reversed(s) == [k \in 1..Len(s) |-> s[Len(s) + 1 - k]]

\* f applied to x with no other argument
Apply(f, x) == Call(f, <<x>>)

RECURSIVE LeftToRight(_, _)
LeftToRight(fns, x) ==
  IF Len(fns) = 0 THEN x ELSE LeftToRight(Tail(fns), Apply(fns[1], x))

(***************************************************************************)
(* C1: quicksort(s) is non-decreasing and a permutation of s, for both      *)
(* quicksort definitions and with either flatten definition in effect.      *)
(***************************************************************************)
C1_SortCorrectness ==
  IsCall("quicksort") =>
    /\ NonDecreasing(out)
    /\ Permutation(out, args[1])

(***************************************************************************)
(* C2: min(s) is the smallest and max(s) the largest element of s, in any   *)
(* order of s; on the empty sequence they are +Infinity and -Infinity.      *)
(***************************************************************************)
C2_MinMax ==
  /\ IsCall("min") => out = Smallest(args[1])
  /\ IsCall("max") => out = Largest(args[1])

(***************************************************************************)
(* C3: flatten(s) is the sequence of the leaves of s in depth-first         *)
(* left-to-right order, falsy leaves included, for both flatten definitions.*)
(***************************************************************************)
C3_FlattenLeaves == IsCall("flatten") => out = Leaves(args[1])

(***************************************************************************)
(* C4: for in-range i and j, swap(a, i, j) has the length of a, holds a[j]  *)
(* at i, a[i] at j and a[k] at every other k, with either map definition.   *)
(***************************************************************************)
C4_SwapExchanges ==
  IsCall("swap") /\ args[2].v < Len(args[1]) /\ args[3].v < Len(args[1]) =>
    LET a == args[1]
        i == args[2].v + 1
        j == args[3].v + 1
    IN /\ Len(out) = Len(a)
       /\ out[i] = a[j]
       /\ out[j] = a[i]
       /\ \A k \in 1..Len(a) : k \notin {i, j} => out[k] = a[k]

(***************************************************************************)
(* C5: slice(s, i, v) has length(s) + 1 elements, with v immediately        *)
(* before the element originally at i when i < length(s) and v appended     *)
(* last when i >= length(s); the original elements keep their order.        *)
(***************************************************************************)
C5_SliceInserts ==
  IsCall("slice") => out = Inserted(args[1], args[2].v, args[3])

(***************************************************************************)
(* C6: first(s, n) is the leading min(n, length(s)) elements of s, empty    *)
(* when n <= 0, and first(s) is first(s, 1), for both first definitions.    *)
(***************************************************************************)
C6_FirstLeading ==
  IsCall("first") =>
    out = Leading(args[1], IF args[2].kind = "undefined" THEN 1 ELSE args[2].v)

(***************************************************************************)
(* C7: reduce(seq, fn, initial) without an index applies fn once per        *)
(* element, left to right, the k-th application receiving the index k from  *)
(* 0; on the empty sequence it returns initial; for each reduce definition. *)
(***************************************************************************)
C7_ReduceFoldsLeft ==
  IsCall("reduce") =>
    out = args[2] \o [k \in 1..Len(args[1]) |-> <<args[1][k], Num(k - 1)>>]

C9_CompositionLaw ==
  /\ IsCall("flow") =>
       /\ out = LeftToRight(args[1], args[2])
       /\ Len(args[1]) = 0 => out = args[2]
       /\ Len(args[1]) = 3 =>
            out = Apply(args[1][3], Apply(args[1][2], Apply(args[1][1], args[2])))
  /\ IsCall("compose") =>
       /\ out = flow(Reversed(args[1]), args[2])
       /\ Len(args[1]) = 0 => out = args[2]
       /\ Len(args[1]) = 3 =>
            out = Apply(args[1][1], Apply(args[1][2], Apply(args[1][3], args[2])))

\* compose of three functions whose order matters
C9_Witness ==
  /\ IsCall("compose")
  /\ Len(args[1]) = 3
  /\ out # LeftToRight(args[1], args[2])

====
